---- MODULE Spec2Model ----
(***************************************************************************)
(* A model of lib/cell.js: a worksheet's cells, each holding one active    *)
(* Value variant (its constructor, its model snapshot and, for a Merge,    *)
(* its master reference), a style and a merge reference counter.           *)
(*                                                                         *)
(* Every action is one call on the Cell interface, translated from the     *)
(* statement order of the code, so that a call that throws part-way keeps  *)
(* the assignments made before the throw.                                  *)
(***************************************************************************)
EXTENDS Integers, Sequences, FiniteSets, TLC

\* ------------------------------------------------------------------ bounds
\* Number of cells in the worksheet.
NumCells == 3
\* Number of cells that serve the probed cell as master or slave.
NumPartners == 1
\* How many calls that release a merge reference and then throw are followed.
MaxLost == 1
\* How many release() calls on one Value instance are followed.
MaxReleases == 2
\* Number of rows of the worksheet that own cells.
NumRows == 2

Cells == 1..NumCells

\* ------------------------------------------------------------ JS constants
\* The JS value undefined, where a cell reference is expected.
NoCell == 0
\* The JS value undefined, where a string or a style is expected.
U == "<undefined>"
\* The object {} that the constructor and the model setter make for a style.
EmptyStyle == "{}"
\* The inferred kinds of the JS value undefined / null, as payloads.
Undef == [k |-> "undefined", v |-> ""]
Null == [k |-> "null", v |-> ""]

\* Enums.ValueType: the seven tags of the Value.types table.
Types == {"Null", "Number", "String", "Date", "Hyperlink", "Formula", "Merge"}
\* A tag the table has no constructor for.
BogusType == "Bogus"

\* The cell's _address: column letter of the cell, row 1.
Address(c) == <<"A1", "B1", "C1", "D1", "E1", "F1">>[c]
\* An address of no cell of the model.
ForeignAddress == "Z9"

\* ---------------------------------------------------------------- payloads
\* A JS value handed to `cell.value = v`: a scalar, or an object with the
\* fields the code reads (text, hyperlink, formula, result), or a Cell.
Scalar(k, v) == [k |-> k, v |-> v]
Obj(text, hyperlink, formula, result) ==
    [k |-> "object", text |-> text, hyperlink |-> hyperlink,
     formula |-> formula, result |-> result]
CellRef(c) == [k |-> "cell", v |-> Address(c)]
\* What a failed read produces: the error thrown.
Thrown(e) == [k |-> "error", v |-> e]

\* JS truthiness of a string-or-undefined field.
Truthy(s) == s # U /\ s # ""

\* Value.getType throws for this payload.
GetTypeThrows(v) ==
    /\ v.k \notin {"null", "undefined", "string", "number", "date"}
    /\ \/ v.k # "object"
       \/ /\ ~(Truthy(v.text) /\ Truthy(v.hyperlink))
          /\ ~Truthy(v.formula)

\* Mutant: getType tests the formula field before text and hyperlink.
GetTypeFormulaFirst(v) ==
    IF v.k \in {"null", "undefined"} THEN "Null"
    ELSE IF v.k = "string" THEN "String"
    ELSE IF v.k = "number" THEN "Number"
    ELSE IF v.k = "date" THEN "Date"
    ELSE IF Truthy(v.formula) THEN "Formula"
    ELSE "Hyperlink"

\* Value.getType, where it returns.
GetType(v) ==
    IF v.k \in {"null", "undefined"} THEN "Null"
    ELSE IF v.k = "string" THEN "String"
    ELSE IF v.k = "number" THEN "Number"
    ELSE IF v.k = "date" THEN "Date"
    ELSE IF Truthy(v.text) /\ Truthy(v.hyperlink) THEN "Hyperlink"
    ELSE "Formula"

\* FormulaValue.validate throws for this result: getType throws for it, or
\* infers a type that is not one of the four plain ones.
ValidateThrows(v) ==
    GetTypeThrows(v) \/ GetType(v) \notin {"Null", "String", "Number", "Date"}

\* ------------------------------------------------------------ model records
\* A Value's model snapshot. Fields a variant does not have are undefined.
Snapshot(address, type, value, text, hyperlink, formula, result, master, st) ==
    [address |-> address, type |-> type, value |-> value, text |-> text,
     hyperlink |-> hyperlink, formula |-> formula, result |-> result,
     master |-> master, style |-> st]

NullValue(c) == Snapshot(Address(c), "Null", Undef, U, U, U, Undef, U, U)
NumberValue(c, v) == Snapshot(Address(c), "Number", v, U, U, U, Undef, U, U)
StringValue(c, v) == Snapshot(Address(c), "String", v, U, U, U, Undef, U, U)
DateValue(c, v) == Snapshot(Address(c), "Date", v, U, U, U, Undef, U, U)
\* Mutant: the Hyperlink variant stores its two fields crosswise.
HyperlinkValueSwapped(c, text, hyperlink) ==
    Snapshot(Address(c), "Hyperlink", Undef, hyperlink, text, U, Undef, U, U)

HyperlinkValue(c, text, hyperlink) ==
    Snapshot(Address(c), "Hyperlink", Undef, text, hyperlink, U, Undef, U, U)
FormulaValue(c, formula, result) ==
    Snapshot(Address(c), "Formula", Undef, U, U, formula, result, U, U)
\* Mutant: the Merge variant takes its address from the master.
MergeValueAtMaster(c, master) ==
    Snapshot(IF master = NoCell THEN U ELSE Address(master), "Merge", Undef,
             U, U, U, Undef, IF master = NoCell THEN U ELSE Address(master), U)

MergeValue(c, master) ==
    Snapshot(Address(c), "Merge", Undef, U, U, U, Undef,
             IF master = NoCell THEN U ELSE Address(master), U)

\* Value.create(type, cell, v) for a payload v whose type getType inferred.
Create(type, c, v) ==
    CASE type = "Null" -> NullValue(c)
      [] type = "Number" -> NumberValue(c, v)
      [] type = "String" -> StringValue(c, v)
      [] type = "Date" -> DateValue(c, v)
      [] type = "Hyperlink" -> HyperlinkValue(c, v.text, v.hyperlink)
      [] type = "Formula" -> FormulaValue(c, v.formula, v.result)

\* ------------------------------------------------------------------- state
VARIABLES
    vtype,       \* vtype[c]: the variant of c._value (its constructor)
    vmodel,      \* vmodel[c]: c._value.model
    vmaster,     \* vmaster[c]: c._value._master (NoCell: undefined)
    style,       \* style[c]: c.style
    mergeCount,  \* mergeCount[c]: c._mergeCount
    last,        \* the call made last: the operation, whether its receiver
                 \* was a Merge when called, and whether it returned
    released,    \* released[c]: the release() calls made so far on the Value
                 \* instance c holds (recorded only where Init starts it)
    discarded,   \* the release() calls the instance replaced last had had
    row,         \* row[c]: c._row
    col,         \* col[c]: c._col
    got          \* what the last read of cell.row or cell.col returned

vars == <<vtype, vmodel, vmaster, style, mergeCount, last,
          released, discarded, row, col, got>>

Call(op, c, err) == [op |-> op, slave |-> vtype[c] = "Merge", ok |-> err = ""]

\* A Row object, the owner handed to the Cell constructor, and a number.
RowObject(n) == [k |-> "row", n |-> n]
Num(n) == [k |-> "number", n |-> n]
\* The rows of the worksheet.
Rows == { RowObject(n) : n \in 1..NumRows }
\* Nothing read yet.
NoRead == [k |-> "none", n |-> NoCell]
\* The release() calls are not recorded.
Untraced == << >>

\* parseInt(address.match(/\d+/)[0]): the number the digits of the address
\* spell.
ParseRow(address) ==
    CASE address = "Z9" -> 9
      [] OTHER -> 1
\* colCache.l2n(address.match(/[A-Z]+/)[0]): the number of the column the
\* letters of the address name.
L2N(address) ==
    CASE address = "A1" -> 1
      [] address = "B1" -> 2
      [] address = "C1" -> 3
      [] address = "D1" -> 4
      [] address = "E1" -> 5
      [] address = "F1" -> 6
      [] address = "Z9" -> 26

\* The fields the constructor sets, but for the owner: a Null value, an empty
\* style, no merge reference, no cached column.
NewCells ==
    /\ vtype = [c \in Cells |-> "Null"]
    /\ vmodel = [c \in Cells |-> NullValue(c)]
    /\ vmaster = [c \in Cells |-> NoCell]
    /\ style = [c \in Cells |-> EmptyStyle]
    /\ mergeCount = [c \in Cells |-> 0]
    /\ col = [c \in Cells |-> Undef]
    /\ got = NoRead
    /\ discarded = {}
    /\ last = [op |-> "new", slave |-> FALSE, ok |-> TRUE]

\* new Cell(row, address) for every cell of the worksheet, with the row of
\* its address as owner.
Init ==
    /\ NewCells
    /\ row = [c \in Cells |-> RowObject(ParseRow(Address(c)))]
    /\ released = Untraced

\* The same, with the release() calls recorded.
InitTraced ==
    /\ NewCells
    /\ row = [c \in Cells |-> RowObject(ParseRow(Address(c)))]
    /\ released = [c \in Cells |-> 0]

\* new Cell(row, address) with any row of the worksheet as owner.
InitAnyRow ==
    /\ NewCells
    /\ row \in [Cells -> Rows]
    /\ released = Untraced

\* ---------------------------------------------------------------- getters
\* Cell.type
Type(c) == vtype[c]
\* Cell.master: the Merge variant's _master, else the cell itself.
Master(c) == IF Type(c) = "Merge" THEN vmaster[c] ELSE c
\* Cell.isMergedTo(master)
IsMergedTo(c, master) == Type(c) = "Merge" /\ master = vmaster[c]
\* Cell.isMerged
IsMerged(c) == mergeCount[c] > 0 \/ Type(c) = "Merge"

\* Cell.value (get), through the variant's getter. A Merge reads its master's
\* value: an undefined master throws a TypeError, and a cycle of masters
\* recurses until the stack overflows (more hops than there are cells).
RECURSIVE ReadValue(_, _)
ReadValue(c, hops) ==
    CASE Type(c) = "Null" -> Null
      [] Type(c) \in {"Number", "String", "Date"} -> vmodel[c].value
      [] Type(c) = "Hyperlink" ->
            Obj(vmodel[c].text, vmodel[c].hyperlink, U, Undef)
      [] Type(c) = "Formula" ->
            Obj(U, U, vmodel[c].formula, vmodel[c].result)
      [] Type(c) = "Merge" ->
            IF vmaster[c] = NoCell THEN Thrown("TypeError")
            ELSE IF hops = 0 THEN Thrown("RangeError")
            ELSE ReadValue(vmaster[c], hops - 1)
Value(c) == ReadValue(c, NumCells)

\* Mutant: the setter of a Merge cell forwards to its own cell, not to the
\* master, and so never returns.
WriteTargetOfOwnCell(c, hops) == IF Type(c) # "Merge" THEN c ELSE -1

\* Mutant: the setter of a Merge cell does not forward to its master.
WriteTargetIsReceiver(c, hops) == c

\* The cell a `cell.value = v` ends at: a Merge forwards to its master's
\* setter. -1: the forwarding never ends (RangeError).
RECURSIVE WriteTarget(_, _)
WriteTarget(c, hops) ==
    IF Type(c) # "Merge" THEN c
    ELSE IF vmaster[c] = NoCell THEN NoCell
    ELSE IF hops = 0 THEN -1
    ELSE WriteTarget(vmaster[c], hops - 1)

\* -------------------------------------------------------- merge references
\* Cell.addMergeRef / Cell.releaseMergeRef on cell m, given the counters mc.
AddMergeRef(mc, m) == [mc EXCEPT ![m] = @ + 1]
ReleaseMergeRef(mc, m) == [mc EXCEPT ![m] = @ - 1]

\* Mutant: release() of a Merge leaves its master's counter alone.
ReleaseKeepsReference(c) == mergeCount

\* c._value.release() throws: a Merge whose _master is undefined.
ReleaseThrows(c) == Type(c) = "Merge" /\ vmaster[c] = NoCell
\* The counters after c._value.release(), where it returns.
Release(c) ==
    IF Type(c) = "Merge" THEN ReleaseMergeRef(mergeCount, vmaster[c])
    ELSE mergeCount
\* The slaves of m: the cells whose Merge variant refers to m.
Slaves(m) == {c \in Cells : Type(c) = "Merge" /\ vmaster[c] = m}
\* The references the counters of the cells in S fall short of their slaves.
RECURSIVE Lost(_)
Lost(S) ==
    IF S = {} THEN 0
    ELSE LET m == CHOOSE x \in S : TRUE
         IN  Cardinality(Slaves(m)) - mergeCount[m] + Lost(S \ {m})
\* The model follows at most MaxLost calls that release a reference and throw.
Followed == Lost(Cells) < MaxLost

\* ------------------------------------------------------------------ inputs
\* Payloads of `cell.value = v` that every cell is handed: a string and an
\* object of no recognised shape.
Payloads ==
    { Scalar("string", "s"), Obj(U, U, U, Undef) }

\* The payloads the probed cell is handed: one of every kind getType tells
\* apart, two unrecognised objects and a Cell.
ProbePayloads ==
    { Null, Undef,
      Scalar("string", "s"), Scalar("number", "1"), Scalar("date", "d"),
      Obj("t", "h", U, Undef),
      Obj(U, U, "f", Scalar("number", "1")),
      Obj(U, U, U, Undef),
      Obj("", "h", U, Undef),
      CellRef(NumCells) }

\* A snapshot of the given type, with the fields its variant exports.
Fields(type, address, st) ==
    CASE type = "Number" ->
            Snapshot(address, type, Scalar("number", "1"), U, U, U, Undef, U, st)
      [] type = "String" ->
            Snapshot(address, type, Scalar("string", "s"), U, U, U, Undef, U, st)
      [] type = "Date" ->
            Snapshot(address, type, Scalar("date", "d"), U, U, U, Undef, U, st)
      [] type = "Hyperlink" ->
            Snapshot(address, type, Undef, "t", "h", U, Undef, U, st)
      [] type = "Formula" ->
            Snapshot(address, type, Undef, U, U, "f", Scalar("number", "1"), U, st)
      [] type = "Merge" ->
            Snapshot(address, type, Undef, U, U, U, Undef, Address(NumCells), st)
      [] OTHER ->
            Snapshot(address, type, Undef, U, U, U, Undef, U, st)

\* Fresh snapshots handed to `cell.model = m` of every cell: a String and one
\* of an unknown type, for the cell's own address, without a style.
Snapshots(c) ==
    { Fields(t, Address(c), U) : t \in {"String", BogusType} }

\* The fresh snapshots the probed cell is handed: one of each type and one
\* of an unknown type, and some that carry a style or a foreign address.
ProbeSnapshots(c) ==
    { Fields(t, Address(c), U) : t \in Types \cup {BogusType} }
        \cup { Fields(t, Address(c), "s1") : t \in {"Number", "Merge"} }
        \cup { Fields(t, ForeignAddress, U) : t \in {"String", "Merge"} }

\* ----------------------------------------------------------------- actions
\* The call made `calls` release() calls on the Value instance cell t holds
\* and then, when `replaced`, installed a new instance in its place.
Trace(t, calls, replaced) ==
    IF released = Untraced THEN UNCHANGED <<released, discarded>>
    ELSE IF replaced
    THEN /\ released' = [released EXCEPT ![t] = 0]
         /\ discarded' = {released[t] + calls}
    ELSE /\ released[t] + calls <= MaxReleases
         /\ released' = [released EXCEPT ![t] = @ + calls]
         /\ UNCHANGED discarded

\* No call but a read of cell.row or cell.col touches _row and _col.
Coordinates == <<row, col, got>>

\* Cell.value (set)
ValueSet(c, v) ==
    LET t == WriteTarget(c, NumCells) IN
    IF t \notin Cells
    THEN /\ UNCHANGED <<vtype, vmodel, vmaster, style, mergeCount>>
         /\ UNCHANGED <<released, discarded, Coordinates>>
         /\ last' = Call("value", c, IF t = NoCell THEN "TypeError" ELSE "RangeError")
    ELSE IF GetTypeThrows(v)
    THEN /\ mergeCount' = Release(t)
         /\ UNCHANGED <<vtype, vmodel, vmaster, style, Coordinates>>
         /\ Trace(t, 1, FALSE)
         /\ last' = Call("value", c, "UnrecognizedType")
    ELSE /\ mergeCount' = Release(t)
         /\ vtype' = [vtype EXCEPT ![t] = GetType(v)]
         /\ vmodel' = [vmodel EXCEPT ![t] = Create(GetType(v), t, v)]
         /\ vmaster' = [vmaster EXCEPT ![t] = NoCell]
         /\ UNCHANGED <<style, Coordinates>>
         /\ Trace(t, 1, TRUE)
         /\ last' = Call("value", c, "")

\* Mutant: the getter also stores the cell's own address into the snapshot.
ExportedWithOwnAddress(c) ==
    [vmodel[c] EXCEPT !.style = style[c], !.address = Address(c)]

\* What Cell.model (get) returns: the variant's model object, with the
\* cell's style stored into it.
Exported(c) == [vmodel[c] EXCEPT !.style = style[c]]

\* Cell.model (get)
ModelGet(c) ==
    /\ vmodel' = [vmodel EXCEPT ![c] = Exported(c)]
    /\ UNCHANGED <<vtype, vmaster, style, mergeCount>>
    /\ UNCHANGED <<released, discarded, Coordinates>>
    /\ last' = Call("modelGet", c, "")

\* Cell.model (set), from the models the variants hold when the setter
\* starts. The variant made by Value.create(type, cell) gets no payload: a
\* Merge made here has an undefined master and adds no reference.
SetModel(op, c, m, models) ==
    /\ (m.type \notin Types /\ Type(c) = "Merge") => Followed
    /\ UNCHANGED Coordinates
    /\ IF ReleaseThrows(c)
       THEN /\ vmodel' = models
            /\ UNCHANGED <<vtype, vmaster, style, mergeCount>>
            /\ UNCHANGED <<released, discarded>>
            /\ last' = Call(op, c, "TypeError")
       ELSE IF m.type \notin Types
       THEN /\ mergeCount' = Release(c)
            /\ vmodel' = models
            /\ UNCHANGED <<vtype, vmaster, style>>
            /\ Trace(c, 1, FALSE)
            /\ last' = Call(op, c, "UnknownValueType")
       ELSE /\ mergeCount' = Release(c)
            /\ Trace(c, 1, TRUE)
            /\ vtype' = [vtype EXCEPT ![c] = m.type]
            /\ vmaster' = [vmaster EXCEPT ![c] = NoCell]
            /\ vmodel' = [models EXCEPT ![c] = m]
            /\ style' = [style EXCEPT ![c] = IF m.style # U THEN m.style ELSE EmptyStyle]
            /\ last' = Call(op, c, "")

\* `cell.model = m` for a snapshot m the caller made.
ModelSet(c, m) == SetModel("modelSet", c, m, vmodel)

\* `cell.model = cell.model`: the getter runs, then the setter is handed the
\* object the getter returned.
Reimport(c) ==
    SetModel("reimport", c, Exported(c), [vmodel EXCEPT ![c] = Exported(c)])

\* Mutant: merge() with the cell and the master crossed.
MergeSwapped(c, master) ==
    /\ UNCHANGED Coordinates
    /\ IF ReleaseThrows(master)
       THEN /\ UNCHANGED <<vtype, vmodel, vmaster, style, mergeCount>>
            /\ UNCHANGED <<released, discarded>>
            /\ last' = Call("merge", c, "TypeError")
       ELSE /\ mergeCount' = AddMergeRef(Release(master), c)
            /\ Trace(master, 1, TRUE)
            /\ vtype' = [vtype EXCEPT ![master] = "Merge"]
            /\ vmodel' = [vmodel EXCEPT ![master] = MergeValue(master, c)]
            /\ vmaster' = [vmaster EXCEPT ![master] = c]
            /\ UNCHANGED style
            /\ last' = Call("merge", c, "")

\* Cell.merge(master)
Merge(c, master) ==
    /\ UNCHANGED Coordinates
    /\ IF ReleaseThrows(c)
       THEN /\ UNCHANGED <<vtype, vmodel, vmaster, style, mergeCount>>
            /\ UNCHANGED <<released, discarded>>
            /\ last' = Call("merge", c, "TypeError")
       ELSE /\ mergeCount' = AddMergeRef(Release(c), master)
            /\ Trace(c, 1, TRUE)
            /\ vtype' = [vtype EXCEPT ![c] = "Merge"]
            /\ vmodel' = [vmodel EXCEPT ![c] = MergeValue(c, master)]
            /\ vmaster' = [vmaster EXCEPT ![c] = master]
            /\ UNCHANGED style
            /\ last' = Call("merge", c, "")

\* Cell.unmerge()
Unmerge(c) ==
    /\ UNCHANGED Coordinates
    /\ IF Type(c) # "Merge"
       THEN /\ UNCHANGED <<vtype, vmodel, vmaster, style, mergeCount>>
            /\ UNCHANGED <<released, discarded>>
            /\ last' = Call("unmerge", c, "")
       ELSE IF ReleaseThrows(c)
       THEN /\ UNCHANGED <<vtype, vmodel, vmaster, style, mergeCount>>
            /\ UNCHANGED <<released, discarded>>
            /\ last' = Call("unmerge", c, "TypeError")
       ELSE /\ mergeCount' = Release(c)
            /\ Trace(c, 1, TRUE)
            /\ vtype' = [vtype EXCEPT ![c] = "Null"]
            /\ vmodel' = [vmodel EXCEPT ![c] = NullValue(c)]
            /\ vmaster' = [vmaster EXCEPT ![c] = NoCell]
            /\ UNCHANGED style
            /\ last' = Call("unmerge", c, "")

\* Hyperlink targets handed to _upgradeToHyperlink.
Links == {"h"}

\* Cell._upgradeToHyperlink(hyperlink). The text is read from
\* this._value._value, a property no StringValue has: it is undefined. The
\* String instance is replaced without a call of its release().
UpgradeToHyperlink(c, hyperlink) ==
    /\ IF Type(c) = "String"
       THEN /\ vmodel' = [vmodel EXCEPT ![c] = HyperlinkValue(c, U, hyperlink)]
            /\ vtype' = [vtype EXCEPT ![c] = "Hyperlink"]
            /\ Trace(c, 0, TRUE)
       ELSE UNCHANGED <<vtype, vmodel, released, discarded>>
    /\ UNCHANGED <<vmaster, style, mergeCount, Coordinates>>
    /\ last' = Call("upgrade", c, "")

\* MergeValue.value (set) with a Cell as payload, on the Merge instance cell
\* c holds: the merge is re-targeted to the new master. The instance's model
\* is left as the constructor made it.
Retarget(c, master) ==
    /\ Type(c) = "Merge"
    /\ mergeCount' =
          AddMergeRef(IF vmaster[c] # NoCell
                      THEN ReleaseMergeRef(mergeCount, vmaster[c])
                      ELSE mergeCount, master)
    /\ vmaster' = [vmaster EXCEPT ![c] = master]
    /\ UNCHANGED <<vtype, vmodel, style, released, discarded, Coordinates>>
    /\ last' = Call("retarget", c, "")

\* Cell.row (get): _row is parsed from the address when it is not set.
RowGet(c) ==
    /\ row' = [row EXCEPT ![c] =
                  IF @ = Undef THEN Num(ParseRow(Address(c))) ELSE @]
    /\ got' = row'[c]
    /\ UNCHANGED <<vtype, vmodel, vmaster, style, mergeCount,
                   released, discarded, col>>
    /\ last' = Call("row", c, "")

\* Cell.col (get): _col is computed from the address when it is not set.
ColGet(c) ==
    /\ col' = [col EXCEPT ![c] =
                  IF @ = Undef THEN Num(L2N(Address(c))) ELSE @]
    /\ got' = col'[c]
    /\ UNCHANGED <<vtype, vmodel, vmaster, style, mergeCount,
                   released, discarded, row>>
    /\ last' = Call("col", c, "")

\* The calls made on every cell of the worksheet.
Next ==
    \/ \E c \in Cells, v \in Payloads : ValueSet(c, v)
    \/ \E c \in Cells : \E m \in Snapshots(c) : ModelSet(c, m)
    \/ \E c, master \in Cells : Merge(c, master)
    \/ \E c \in Cells : Unmerge(c)

Spec == Init /\ [][Next]_vars

\* The probed cell and its partners: the first cell is handed every payload
\* and snapshot, and its model is read; its partners merge and unmerge with
\* it and are written through it.
Probed == CHOOSE c \in Cells : \A d \in Cells : c <= d
Partners == (Probed + 1)..(Probed + NumPartners)
ProbeCells == {Probed} \cup Partners

NextProbe ==
    \/ \E c \in ProbeCells :
            \E v \in (IF WriteTarget(c, NumCells) = Probed
                      THEN ProbePayloads ELSE Payloads) : ValueSet(c, v)
    \/ \E m \in ProbeSnapshots(Probed) : ModelSet(Probed, m)
    \/ ModelGet(Probed)
    \/ Reimport(Probed)
    \/ \E c, master \in ProbeCells : Merge(c, master)
    \/ \E c \in ProbeCells : Unmerge(c)
    \/ \E hyperlink \in Links : UpgradeToHyperlink(Probed, hyperlink)

SpecProbe == Init /\ [][NextProbe]_vars

\* The calls on the probed cell and its partners, with the release() calls
\* recorded.
SpecTraced == InitTraced /\ [][NextProbe]_vars

\* Merges, and the Merge variant's own value setter handed a Cell.
NextRetarget ==
    \/ \E c, master \in Cells : Merge(c, master)
    \/ \E c \in Cells : Unmerge(c)
    \/ \E c, master \in Cells : Retarget(c, master)

SpecRetarget == Init /\ [][NextRetarget]_vars

\* Reads of the coordinates of cells of any owner.
NextCoord ==
    \/ \E c \in Cells : RowGet(c)
    \/ \E c \in Cells : ColGet(c)

SpecCoord == InitAnyRow /\ [][NextCoord]_vars

\* The results a Formula payload carries: none, a number, and objects of the
\* shape of a Hyperlink and of a Formula payload.
Results ==
    { Undef, Scalar("number", "1"),
      Obj("t", "h", U, Undef), Obj(U, U, "f", Undef) }

\* Payloads of every shape Value.getType tells apart: the scalars, a boolean,
\* a Cell, the objects whose text, hyperlink and formula are each missing,
\* empty or non-empty, and Formula payloads with each of the results.
Shapes ==
    { Null, Undef, Scalar("string", "s"), Scalar("number", "1"),
      Scalar("date", "d"), Scalar("boolean", "true"), CellRef(NumCells) }
        \cup { Obj(text, hyperlink, formula, Undef) :
                    text \in {U, "", "t"}, hyperlink \in {U, "", "h"},
                    formula \in {U, "", "f"} }
        \cup { Obj(U, U, "f", result) : result \in Results }

\* Assignments of payloads of every shape to cells that are never merged.
NextInfer ==
    \E c \in ProbeCells : \E v \in Shapes : ValueSet(c, v)

SpecInfer == Init /\ [][NextInfer]_vars
\* ------------------------------------------------------------------ claims
\* What a call leaves alone when it is a no-op.
CellState == <<vtype, vmodel, vmaster, style, mergeCount>>

\* C1: in every reachable state each cell's mergeCount is the number of cells
\* whose active value is a Merge variant whose master reference is that cell.
C1_MergeCountIsSlaveCount ==
    \A m \in Cells : mergeCount[m] = Cardinality(Slaves(m))

\* C2: a call that raises an error leaves every cell's variant, payload,
\* style and mergeCount exactly as they were before the call.
C2_FailedCallChangesNothing ==
    [][~last'.ok => UNCHANGED CellState]_vars

\* C3: mergeCount >= 0 for every cell in every reachable state.
C3_MergeCountNotNegative ==
    \A c \in Cells : mergeCount[c] >= 0

\* What a caller can read of cell c: its type, value, master, isMerged and
\* model.
Observed(c) == <<Type(c), Value(c), Master(c), IsMerged(c), Exported(c)>>

\* C4: `cell.model = cell.model` is an observational no-op: the cell's type,
\* value, master, isMerged and model, and the mergeCount of every other
\* cell, are afterwards what they were before.
C4_ReimportIsNoOp ==
    [][\A c \in Cells :
          Reimport(c) =>
              /\ Observed(c)' = Observed(c)
              /\ \A d \in Cells \ {c} : mergeCount'[d] = mergeCount[d]]_vars

\* C5: for every cell b and every cell a that is not a Merge, after
\* b.merge(a): b is a Merge, b.master is a, b.isMergedTo(a) and no
\* b.isMergedTo(x) for another x, a.mergeCount is one more than the number of
\* other slaves a had, and b.value reads what a.value reads.
C5_MergePostcondition ==
    [][\A b, a \in Cells :
          (Type(a) # "Merge" /\ Merge(b, a)) =>
              /\ Type(b)' = "Merge"
              /\ Master(b)' = a
              /\ \A x \in Cells : IsMergedTo(b, x)' <=> x = a
              /\ mergeCount'[a] = Cardinality(Slaves(a) \ {b}) + 1
              /\ Value(b)' = Value(a)']_vars

\* r, read from cell.value, is the payload v: both null or undefined, the
\* same scalar, or objects that agree on every field.
SameValue(r, v) ==
    IF v.k \in {"null", "undefined"} THEN r.k \in {"null", "undefined"}
    ELSE r = v

\* Every payload a call of the model hands to `cell.value = v`.
AllPayloads == Payloads \cup ProbePayloads

\* The frame of a write through a slave b: b's type and master and every
\* mergeCount stay as they are.
SlaveUntouched(b) ==
    /\ Type(b)' = "Merge"
    /\ Master(b)' = Master(b)
    /\ mergeCount' = mergeCount

\* The step is a `cell.value = v` on a cell that was a Merge.
WriteThroughSlave == last'.op = "value" /\ last'.slave

\* C6: when b is a Merge with master a, b.value = v makes a.value and b.value
\* read back v, and leaves b's type, b's master and every mergeCount
\* unchanged.
C6_SlaveWriteReadsBack ==
    [][WriteThroughSlave => \A b \in Cells : \A v \in AllPayloads :
          (vmaster[b] \in Cells /\ ValueSet(b, v)) =>
              /\ SameValue(Value(vmaster[b])', v)
              /\ SameValue(Value(b)', v)
              /\ SlaveUntouched(b)]_vars

\* C6, amended: the read-back holds when the master a is not itself a Merge
\* and v is a payload getType recognises; the frame holds for every v and
\* every master, whether the call returns or throws.
C6_SlaveWriteProxy ==
    [][WriteThroughSlave => \A b \in Cells : \A v \in AllPayloads :
          (vmaster[b] \in Cells /\ ValueSet(b, v)) =>
              /\ (Type(vmaster[b]) # "Merge" /\ ~GetTypeThrows(v)) =>
                    /\ SameValue(Value(vmaster[b])', v)
                    /\ SameValue(Value(b)', v)
              /\ SlaveUntouched(b)]_vars

\* C6 witness: a write through a slave of the probed cell has stored a
\* Hyperlink payload in the master, and the slave reads it.
C6_Witness ==
    /\ last.op = "value" /\ last.slave /\ last.ok
    /\ \E b \in Cells \ {Probed} :
          /\ IsMergedTo(b, Probed)
          /\ Type(Probed) = "Hyperlink"
          /\ Value(b) = Obj("t", "h", U, Undef)

\* C7: unmerge() on a Merge b with master a makes b a Null and takes exactly
\* one from a.mergeCount, to 0 when b was a's only slave; on a cell of any
\* other type it changes nothing.
C7_Unmerge ==
    [][\A b \in Cells :
          Unmerge(b) =>
              /\ (Type(b) = "Merge" /\ vmaster[b] \in Cells) =>
                    /\ Type(b)' = "Null"
                    /\ mergeCount' = [mergeCount EXCEPT ![vmaster[b]] = @ - 1]
                    /\ Slaves(vmaster[b]) = {b} => mergeCount'[vmaster[b]] = 0
              /\ Type(b) # "Merge" => UNCHANGED CellState]_vars

\* The step is a merge() on a cell that was a Merge.
Remerge == last'.op = "merge" /\ last'.slave

\* C8: when b is merged to a, b.merge(c) with c distinct from a takes exactly
\* one from a.mergeCount, adds exactly one to c.mergeCount and changes no
\* other mergeCount; with c = a every mergeCount is unchanged. (The merge of
\* a cell that has a master returns and makes c its master, which is tested
\* first because it is cheap.)
C8_RemergeMovesOneReference ==
    [][Remerge => \A b, c \in Cells :
          (vmaster[b] \in Cells /\ vmaster'[b] = c /\ Merge(b, c)) =>
              \A x \in Cells :
                  mergeCount'[x] =
                      IF c = vmaster[b] THEN mergeCount[x]
                      ELSE IF x = vmaster[b] THEN mergeCount[x] - 1
                      ELSE IF x = c THEN mergeCount[x] + 1
                      ELSE mergeCount[x]]_vars

\* C8 witness: a slave has just been merged again, to a master that is a
\* third cell, and its former master is left with no reference.
C8_Witness ==
    /\ last.op = "merge" /\ last.slave /\ last.ok
    /\ \E a, b, c \in Cells :
          /\ Cardinality({a, b, c}) = 3
          /\ IsMergedTo(b, c) /\ mergeCount[c] = 1
          /\ Type(a) = "String" /\ mergeCount[a] = 0 /\ Slaves(a) = {}

\* C9: in every reachable state cell.master is a Cell: the cell itself when
\* it is not a Merge, its master cell (never undefined) when it is.
C9_MasterIsACell ==
    \A c \in Cells : Master(c) \in Cells

\* The step is a `cell.model = m` that returned; the step is a read of
\* cell.model that follows one.
Imported == last'.op = "modelSet" /\ last'.ok
ReadAfterImport == last.op = "modelSet" /\ last.ok /\ last'.op = "modelGet"

ReadsBack(r, v) ==
    IF v.k \in {"null", "undefined"} THEN r.k = "null"
    ELSE IF v.k # "object" THEN r = v
    ELSE /\ r.k = "object"
         /\ IF GetType(v) = "Hyperlink"
            THEN r.text = v.text /\ r.hyperlink = v.hyperlink
            ELSE r.formula = v.formula /\ r.result = v.result

\* The step is a `cell.value = x`.
Written == last'.op = "value"

\* C11: for every cell and every payload x getType recognises, cell.value = x
\* followed by reading cell.value gives a value equal to x, and the cell's
\* type is then the type inferred from x.
C11_WriteThenRead ==
    [][Written => \A c \in Cells : \A x \in AllPayloads :
          (~GetTypeThrows(x) /\ ValueSet(c, x)) =>
              /\ ReadsBack(Value(c)', x)
              /\ Type(c)' = GetType(x)]_vars

\* The step is the call `c.value = x` and it returned. (ValueSet implies the
\* conjuncts before it; they are tested first because they are cheap.)
Assigned(c, x) ==
    /\ ~GetTypeThrows(x)
    /\ last'.slave = (Type(c) = "Merge")
    /\ vtype'[WriteTarget(c, NumCells)] = GetType(x)
    /\ ValueSet(c, x)

\* C11, amended: on a cell that is not a Merge the value reads back and the
\* type is the inferred one; on a Merge whose master is a cell that is not a
\* Merge the value reads back through the master, whose type is the inferred
\* one, and the cell stays a Merge.
C11_WriteThenReadUnlessMerge ==
    [][(Written /\ last'.ok) => \A c \in Cells :
          (Type(c) # "Merge"
              \/ (vmaster[c] \in Cells /\ Type(vmaster[c]) # "Merge")) =>
              \A x \in AllPayloads :
                  Assigned(c, x) =>
                      /\ ReadsBack(Value(c)', x)
                      /\ vtype'[Master(c)] = GetType(x)
                      /\ Type(c)' = IF Type(c) = "Merge" THEN "Merge"
                                    ELSE GetType(x)]_vars

\* C11 witness: the probed cell, not a Merge, has just been assigned a
\* Formula payload and reads it back.
C11_Witness ==
    /\ last.op = "value" /\ ~last.slave /\ last.ok
    /\ Type(Probed) = "Formula"
    /\ Value(Probed) = Obj(U, U, "f", Scalar("number", "1"))

\* C12: in every reachable state the result of every Formula cell is one
\* FormulaValue.validate accepts: it infers to Null, Number, String or Date
\* (an assignment of a Formula payload with any other result has failed).
C12_FormulaResultIsPlain ==
    \A c \in Cells : Type(c) = "Formula" => ~ValidateThrows(vmodel[c].result)

\* C13: _upgradeToHyperlink(link) on a String cell with text s makes it a
\* Hyperlink whose value is {text: s, hyperlink: link}; on a cell of any
\* other type it leaves type and value unchanged; in both cases the style and
\* the mergeCount of every cell are unchanged.
C13_UpgradeToHyperlink ==
    [][last'.op = "upgrade" => \A c \in Cells : \A link \in Links :
          UpgradeToHyperlink(c, link) =>
              /\ IF Type(c) = "String"
                 THEN /\ Type(c)' = "Hyperlink"
                      /\ Value(c)' = Obj(vmodel[c].value.v, link, U, Undef)
                 ELSE /\ Type(c)' = Type(c)
                      /\ Value(c)' = Value(c)
              /\ style' = style
              /\ mergeCount' = mergeCount]_vars

\* The type the priority order of the claim gives a payload, or
\* "UnrecognizedType".
Classified(v) ==
    CASE v.k \in {"null", "undefined"} -> "Null"
      [] v.k = "string" -> "String"
      [] v.k = "number" -> "Number"
      [] v.k = "date" -> "Date"
      [] v.k = "object" /\ v.text \notin {U, ""} /\ v.hyperlink \notin {U, ""} ->
            "Hyperlink"
      [] v.k = "object" /\ (v.text \in {U, ""} \/ v.hyperlink \in {U, ""})
            /\ v.formula \notin {U, ""} ->
            "Formula"
      [] OTHER -> "UnrecognizedType"

\* C14: Value.getType classifies a payload in priority order: null or
\* undefined is Null, a string String, a number Number, a date Date, an
\* object with non-empty text and hyperlink Hyperlink (also when it has a
\* formula), an object with a non-empty formula Formula; every other shape
\* fails with UnrecognizedType, and the result is never Merge. An assignment
\* to an unmerged cell shows the classification: it fails exactly on the
\* unrecognised shapes and otherwise gives the cell the classified type.
\* (ValueSet implies the conjuncts before it, which are cheap to test.)
C14_GetTypePriority ==
    [][Written => \A v \in Shapes :
          (last'.ok = ~GetTypeThrows(v)) => \A c \in ProbeCells :
              (/\ Type(c) # "Merge"
               /\ last'.ok => vtype'[c] = GetType(v)
               /\ ValueSet(c, v)) =>
                  /\ GetTypeThrows(v) <=> Classified(v) = "UnrecognizedType"
                  /\ last'.ok <=> Classified(v) # "UnrecognizedType"
                  /\ last'.ok =>
                        /\ Type(c)' = Classified(v)
                        /\ GetType(v) = Classified(v)
                        /\ GetType(v) # "Merge"]_vars

\* C14 witness: assignments have made one cell a Hyperlink and another a
\* Formula whose result has the shape of a Hyperlink payload, and the last
\* assignment was of a shape getType does not recognise.
C14_Witness ==
    /\ last.op = "value" /\ ~last.ok
    /\ \E c, d \in Cells :
          /\ Type(c) = "Hyperlink" /\ Value(c) = Obj("t", "h", U, Undef)
          /\ Type(d) = "Formula"
          /\ Value(d) = Obj(U, U, "f", Obj("t", "h", U, Undef))

\* C15: every Value instance a cell holds is released exactly once,
\* immediately before it is replaced: no instance has had more than one
\* release() call, and the instance replaced last had had exactly one.
C15_ReleasedExactlyOnce ==
    /\ released # Untraced => \A c \in Cells : released[c] <= 1
    /\ discarded \subseteq {1}

\* C16: in every reachable state the address reported by cell.model equals
\* cell.address.
C16_ModelAddressIsCellAddress ==
    \A c \in Cells : Exported(c).address = Address(c)

\* The address in the snapshot of c's Value is not c's address.
Stale(c) == vmodel[c].address # Address(c)

\* C16, amended: the address of the snapshot differs from the cell's only
\* when this call is a `cell.model = m` with an m of another address, or
\* when it differed before and the call has left the cell's Value in place
\* (but for the style a read of cell.model stores): every value set, merge,
\* unmerge and _upgradeToHyperlink that replaces the Value restores it.
C16_ModelAddressUnlessImported ==
    [][\A c \in Cells :
          Stale(c)' =>
              \/ /\ last'.op = "modelSet" /\ last'.ok
                 /\ \E m \in ProbeSnapshots(c) :
                        m.address # Address(c) /\ ModelSet(c, m)
              \/ /\ Stale(c)
                 /\ [vmodel'[c] EXCEPT !.style = U] =
                        [vmodel[c] EXCEPT !.style = U]]_vars

\* C16 witness: a String snapshot of another address has just been imported
\* into the probed cell, whose snapshot now has that address.
C16_Witness ==
    /\ last.op = "modelSet" /\ last.ok
    /\ Type(Probed) = "String" /\ Stale(Probed)
    /\ vmodel[Probed].address = ForeignAddress

\* No Merge cell has a master that is a Merge.
ChainFree ==
    \A c \in Cells :
        (Type(c) = "Merge" /\ vmaster[c] \in Cells) => Type(vmaster[c]) # "Merge"

\* C17: provided every merge(master) call is made with a master that is not
\* a Merge at the time of the call, the master of every Merge cell is not a
\* Merge: a chain appears only by a merge onto a Merge.
C17_NoMergeChains ==
    [][(ChainFree /\ ~ChainFree') =>
          \E b, a \in Cells : Type(a) = "Merge" /\ Merge(b, a)]_vars

\* C17, amended: a chain appears only by a merge(master) with a master that
\* is a Merge or the cell itself, by a merge of a cell that has slaves, or by
\* the import of a Merge snapshot into a cell that has slaves.
C17_NoMergeChainsUnlessMasterMerged ==
    [][(ChainFree /\ ~ChainFree') =>
          \/ \E b, a \in Cells :
                /\ Type(a) = "Merge" \/ a = b \/ Slaves(b) # {}
                /\ Merge(b, a)
          \/ \E c \in Cells : \E m \in ProbeSnapshots(c) :
                /\ m.type = "Merge" /\ Slaves(c) # {}
                /\ ModelSet(c, m)]_vars

\* C17 witness: a partner has just been merged onto the probed cell, which
\* holds a Formula, and no Merge has a Merge for master.
C17_Witness ==
    /\ last.op = "merge" /\ last.ok /\ ~last.slave
    /\ ChainFree
    /\ \E b \in Cells \ {Probed} : IsMergedTo(b, Probed)
    /\ Type(Probed) = "Formula" /\ mergeCount[Probed] = 1

\* C18: cell.row and cell.col return the row and column numbers parsed from
\* the cell's address, on the first and on every later read, whatever row
\* owns the cell.
C18_RowAndColAreParsed ==
    [][last'.op \in {"row", "col"} => \A c \in Cells :
          /\ RowGet(c) => got' = Num(ParseRow(Address(c)))
          /\ ColGet(c) => got' = Num(L2N(Address(c)))]_vars

\* C19: reading cell.value terminates in every reachable state: the master
\* references of no cell lead round in a cycle.
C19_ReadTerminates ==
    \A c \in Cells : Value(c) # Thrown("RangeError")

\* The master references of no cell lead round in a cycle: the forwarding of
\* a write ends, at a cell or at an undefined master.
Acyclic == \A c \in Cells : WriteTarget(c, NumCells) \in Cells \cup {NoCell}

\* C19, amended: a cycle of master references appears only by a
\* merge(master) of a cell onto itself or of a cell that has slaves.
C19_NoCycleUnlessMasterMerged ==
    [][(Acyclic /\ ~Acyclic') =>
          \E b, a \in Cells :
              /\ a = b \/ Slaves(b) # {}
              /\ vmaster'[b] = a
              /\ Merge(b, a)]_vars

\* C19 witness: a cell has just been merged onto a Merge: the references
\* form a chain of two, without a cycle, and the read of the first cell
\* ends at the value of the last.
C19_Witness ==
    /\ last.op = "merge" /\ last.ok
    /\ \E a, b, c \in Cells :
          /\ Cardinality({a, b, c}) = 3
          /\ IsMergedTo(b, a) /\ IsMergedTo(a, c) /\ Type(c) = "String"
          /\ Value(b) = Scalar("string", "s")

\* C20: in every reachable state the master field of the snapshot of every
\* Merge variant is the address of the cell its master reference points at.
C20_SerializedMasterIsLive ==
    \A c \in Cells :
        Type(c) = "Merge" =>
            /\ vmaster[c] \in Cells
            /\ vmodel[c].master = Address(vmaster[c])
====
